---- MODULE Spec2Model ----
(***************************************************************************)
(* A model of mgbdis (src/mgbdis.py): the per-bank region map              *)
(* (Bank.add_block, Bank.resolve_blocks), the instruction decoder          *)
(* (Bank.disassemble_at_pc), the label registry and the two passes of      *)
(* ROM.disassemble over every bank.                                        *)
(*                                                                         *)
(* Addresses, bank arithmetic and thresholds are the program's own         *)
(* (0x4000-byte banks, 16-bit operands).  What is bounded is the input:    *)
(* the number of banks, the ROM bytes that differ from 0x00, and the       *)
(* region hints.                                                           *)
(***************************************************************************)
EXTENDS Integers, Sequences, FiniteSets, TLC

VARIABLES
    rom,                     \* the ROM image: [origin, prog], see Data
    blocks,                  \* Bank.blocks, per bank: address -> [type, length]
    labelled_addresses,      \* Bank.labelled_addresses, per bank: address -> name
    disassembled_addresses,  \* Bank.disassembled_addresses, per bank
    target_addresses,        \* Bank.target_addresses, per bank: name -> set
    first_pass,              \* Bank.first_pass, per bank ("unset" before disassemble)
    output,                  \* Bank.output, per bank: sequence of lines
    pc,                      \* Bank.pc of the bank being walked
    end_address,             \* end_address of the code range being walked
    index,                   \* position of Bank.disassemble in the block list
    bank,                    \* loop variable of generate_labels / ROM.disassemble
    stage,                   \* where ROM.disassemble is
    where,                   \* where Bank.disassemble is
    has_ld_long,             \* ROM.has_ld_long
    written,                 \* banks whose bank_xxx.asm has been opened for writing
    insn                     \* locals of the last disassemble_at_pc call

vars == <<rom, blocks, labelled_addresses, disassembled_addresses,
          target_addresses, first_pass, output, pc, end_address, index, bank,
          stage, where, has_ld_long, written, insn>>

(***************************************************************************)
(* Bounds of the model.                                                    *)
(***************************************************************************)
NumBanks == 2       \* banks of the ROM (rom_size // 0x4000)
CodeLen  == 3       \* ROM bytes that may differ from 0x00
MaxHints == 2       \* add_block calls enumerated for the region map

(***************************************************************************)
(* Program constants.                                                      *)
(***************************************************************************)
BankSize     == 16384    \* 0x4000
LabelLimit   == 32768    \* 0x8000
RamLabelBase == 49152    \* 0xc000
HighPage     == 65280    \* 0xff00

Banks == 0 .. (NumBanks - 1)

BlockTypes == {"code", "data", "text"}

memory_base_address(number) == IF number = 0 THEN 0 ELSE BankSize

rom_base_address(number) == IF number = 0 THEN 0 ELSE (number - 1) * BankSize

rom_address_to_mem_address(address) ==
    IF address < BankSize THEN address ELSE (address % BankSize) + BankSize

to_signed(value) == IF value > 127 THEN (256 - value) * (-1) ELSE value

hex_word(value) == <<"hex_word", value>>

hex_byte(value) == <<"hex_byte", value>>

(***************************************************************************)
(* Region map.                                                             *)
(***************************************************************************)
EmptyDict == [k \in {} |-> 0]

\* d[k] = v of a Python dict
Put(d, k, v) == [x \in (DOMAIN d) \cup {k} |-> IF x = k THEN v ELSE d[x]]

RECURSIVE Sorted(_)
\* sorted(keys)
Sorted(S) ==
    IF S = {} THEN <<>>
    ELSE LET m == CHOOSE x \in S : \A y \in S : x <= y
         IN  <<m>> \o Sorted(S \ {m})

\* the blocks of a new Bank: a single code block over the window
DefaultBlocks(number) ==
    Put(EmptyDict, memory_base_address(number),
        [type |-> "code", length |-> BankSize])


\* the guard of add_block
AddBlockAccepts(number, address) == address >= memory_base_address(number)

add_block(blks, number, address, block_type, length) ==
    IF AddBlockAccepts(number, address)
    THEN Put(blks, address, [type |-> block_type, length |-> length])
    ELSE blks

\* mutant: the end of a block is never cut at the next block
TruncatedEnd_never(end, next_start_address) == end

\* "if the next block starts before this one finishes, then adjust end address"
TruncatedEnd(end, next_start_address) ==
    IF next_start_address < end THEN next_start_address ELSE end


\* "no more blocks and didn't finish at the end of the block"
NeedsFinalBlock(end, base) == end # base + BankSize

RECURSIVE ResolveFrom(_, _, _, _, _)
\* the loop of resolve_blocks from position i on (1-based)
ResolveFrom(blks, keys, i, base, resolved_blocks) ==
    IF i > Len(keys) THEN resolved_blocks
    ELSE
    LET start_address == keys[i]
        block    == blks[start_address]
        has_next == i < Len(keys)
        next_start_address == IF has_next THEN keys[i + 1] ELSE start_address
        end == IF has_next
               THEN TruncatedEnd(start_address + block.length, next_start_address)
               ELSE start_address + block.length
        r1 == Put(resolved_blocks, start_address,
                  [type |-> block.type, length |-> end - start_address])
        r2 == IF (~has_next) /\ NeedsFinalBlock(end, base)
              THEN Put(r1, end, [type |-> "code",
                                 length |-> (base + BankSize) - end])
              ELSE r1
        r3 == IF has_next /\ end < next_start_address
              THEN Put(r2, end, [type |-> "code",
                                 length |-> next_start_address - end])
              ELSE r2
    IN  ResolveFrom(blks, keys, i + 1, base, r3)

resolve_blocks(blks, base) ==
    ResolveFrom(blks, Sorted(DOMAIN blks), 1, base, EmptyDict)

(***************************************************************************)
(* The ROM image.  rom.data is 0x00 everywhere except for the bytes of     *)
(* rom.prog, which lie at ROM address rom.origin; the two bytes appended   *)
(* by ROM.__init__ are 0x00 as well.                                       *)
(***************************************************************************)
Data(address) ==
    IF address >= rom.origin /\ address < rom.origin + Len(rom.prog)
    THEN rom.prog[address - rom.origin + 1]
    ELSE 0

(***************************************************************************)
(* The opcode table of instruction_set.py, for the opcodes the model       *)
(* decodes: 0x00 nop, 0x01 ld bc,d16, 0x02 ld [bc],a, 0x10 stop,           *)
(* 0x18 jr pc+r8, 0x20 jr nz,pc+r8, 0x3e ld a,d8, 0x40 ld b,b, 0x76 halt,  *)
(* 0xc3 jp a16, 0xc9 ret, 0xcb prefix, 0xcd call a16,                      *)
(* 0xe0 ldh [$ff00+a8],a, 0xe8 add sp,r8, 0xea ld [a16],a,                 *)
(* 0xf8 ld hl,sp+r8, 0xfa ld a,[a16], 0xff rst $38.  Every other byte,     *)
(* 0xfd among them, is absent.                                             *)
(***************************************************************************)
instructions ==
    {0, 1, 2, 16, 24, 32, 62, 64, 118, 195, 201, 203, 205, 224, 232, 234, 248,
     250, 255}

instruction_names(opcode) ==
    CASE opcode = 0 -> "nop"
      [] opcode \in {1, 2, 62, 64, 234, 248, 250} -> "ld"
      [] opcode = 16 -> "stop"
      [] opcode \in {24, 32} -> "jr"
      [] opcode = 118 -> "halt"
      [] opcode = 195 -> "jp"
      [] opcode = 201 -> "ret"
      [] opcode = 203 -> "prefix"
      [] opcode = 205 -> "call"
      [] opcode = 224 -> "ldh"
      [] opcode = 232 -> "add"
      [] opcode = 255 -> "rst"

instruction_operands(opcode) ==
    CASE opcode \in {0, 16, 118, 201, 203} -> <<>>
      [] opcode = 1 -> <<"bc", "d16">>
      [] opcode = 2 -> <<"[bc]", "a">>
      [] opcode = 24 -> <<"pc+r8">>
      [] opcode = 32 -> <<"nz", "pc+r8">>
      [] opcode = 62 -> <<"a", "d8">>
      [] opcode = 64 -> <<"b", "b">>
      [] opcode = 195 -> <<"a16">>
      [] opcode = 205 -> <<"a16">>
      [] opcode = 224 -> <<"[$ff00+a8]", "a">>
      [] opcode = 232 -> <<"sp", "r8">>
      [] opcode = 234 -> <<"[a16]", "a">>
      [] opcode = 248 -> <<"hl", "sp+r8">>
      [] opcode = 250 -> <<"a", "[a16]">>
      [] opcode = 255 -> <<"$38">>

Registers == <<"b", "c", "d", "e", "h", "l", "[hl]", "a">>

Digits == <<"0", "1", "2", "3", "4", "5", "6", "7">>

cb_instruction_name(cb_opcode) ==
    IF cb_opcode < 64
    THEN <<"rlc", "rrc", "rl", "rr", "sla", "sra", "swap", "srl">>[(cb_opcode \div 8) + 1]
    ELSE <<"bit", "res", "set">>[(cb_opcode \div 64)]

cb_instruction_operands(cb_opcode) ==
    IF cb_opcode < 64
    THEN <<Registers[(cb_opcode % 8) + 1]>>
    ELSE <<Digits[((cb_opcode \div 8) % 8) + 1], Registers[(cb_opcode % 8) + 1]>>

hardware_labels ==
    {65280, 65281, 65282, 65284, 65285, 65286, 65287, 65295}
    \cup (65296 .. 65300) \cup (65302 .. 65310) \cup (65312 .. 65318)
    \cup (65344 .. 65355) \cup {65357, 65359} \cup (65361 .. 65366)
    \cup (65384 .. 65387) \cup {65392, 65535}

(***************************************************************************)
(* Labels.                                                                 *)
(***************************************************************************)
\* mutant: add_label keeps only the address it is given
add_label_assign(targets, instruction_name, address) ==
    [targets EXCEPT ![instruction_name] = {address}]

\* Bank.add_label on the target_addresses of one bank
add_label(targets, instruction_name, address) ==
    IF address \notin targets[instruction_name]
    THEN [targets EXCEPT ![instruction_name] = @ \cup {address}]
    ELSE targets

RECURSIVE AddLabels(_, _)
\* the add_label calls of one call of disassemble_at_pc
AddLabels(targets, added) ==
    IF added = {} THEN targets
    ELSE LET x == CHOOSE y \in added : TRUE
         IN  AddLabels(add_label(targets, x[1], x[2]), added \ {x})

instruction_label_prefixes(instruction_name) ==
    CASE instruction_name = "call" -> "Call"
      [] instruction_name = "jp" -> "Jump"
      [] instruction_name = "jr" -> "jr"

\* '{0}_{1:03x}_{2:04x}'
format_label(number, instruction_name, address) ==
    <<"generated", instruction_label_prefixes(instruction_name), number, address>>

\* an explicit label used as an operand
explicit_label(name) == <<"explicit", name>>

\* mutant: the label lookup does not ask whether the address starts an instruction
IsInstructionStart_any(number, address) == TRUE

\* "address not in self.disassembled_addresses" of get_label_for_instruction_operand
IsInstructionStart(number, address) ==
    address \in disassembled_addresses[number]

\* the label as a sequence of at most one element: <<>> is None
get_label_for_instruction_operand(number, instruction_name, address) ==
    IF ~IsInstructionStart(number, address) THEN <<>>
    ELSE IF address \in DOMAIN labelled_addresses[number]
    THEN <<explicit_label(labelled_addresses[number][address])>>
    ELSE IF address \in target_addresses[number][instruction_name]
    THEN <<format_label(number, instruction_name, address)>>
    ELSE <<>>

\* labels that begin with '.'
LocalNames == {".tail"}

\* name + ':' for a local label, name + '::' otherwise
explicit_definition(name) ==
    IF name \in LocalNames THEN <<":", explicit_label(name)>>
    ELSE <<"::", explicit_label(name)>>

RECURSIVE GeneratedDefinitions(_, _, _)
GeneratedDefinitions(number, address, names) ==
    IF names = <<>> THEN <<>>
    ELSE (IF address \in target_addresses[number][Head(names)]
          THEN <<(<<":", format_label(number, Head(names), address)>>)>>
          ELSE <<>>)
         \o GeneratedDefinitions(number, address, Tail(names))

\* mutant: the labels of an address are always the generated ones
get_labels_for_address_generated(number, address) ==
    GeneratedDefinitions(number, address, <<"call", "jp", "jr">>)

get_labels_for_address(number, address) ==
    IF address \in DOMAIN labelled_addresses[number]
    THEN <<explicit_definition(labelled_addresses[number][address])>>
    ELSE GeneratedDefinitions(number, address, <<"call", "jp", "jr">>)

(***************************************************************************)
(* Bank.disassemble_at_pc.                                                 *)
(***************************************************************************)
\* operand_values.pop(); operand_values.append(v)
ReplaceLast(operand_values, v) ==
    Append(SubSeq(operand_values, 1, Len(operand_values) - 1), v)

\* mutant: any bank may create labels in either window
PartitionRule_any(number, mem_address) == TRUE

\* "dont allow switched banks to create labels in bank 0"
PartitionRule(number, mem_address) ==
    \/ mem_address < BankSize /\ number = 0
    \/ mem_address >= BankSize /\ number > 0

\* the label handling at the end of the operand loop body; V holds the
\* operand's value, and is empty when value is None
LabelOperand(number, fp, s, V) ==
    IF V = {} THEN s
    ELSE
    LET value == CHOOSE v \in V : TRUE
        mem_address == rom_address_to_mem_address(value)
        label == get_label_for_instruction_operand(number, s.instruction_name,
                                                   mem_address)
        last == s.operand_values[Len(s.operand_values)]
    IN  IF s.instruction_name \in {"jr", "jp", "call"} /\ value < LabelLimit
        THEN IF PartitionRule(number, mem_address)
             THEN IF fp
                  THEN [s EXCEPT !.added = @ \cup {<<s.instruction_name, mem_address>>}]
                  ELSE IF label # <<>>
                       THEN [s EXCEPT !.operand_values = ReplaceLast(@, label[1])]
                       ELSE s
             ELSE s
        ELSE IF value >= RamLabelBase
                /\ value \in DOMAIN labelled_addresses[number]
        THEN [s EXCEPT !.operand_values =
                 ReplaceLast(@,
                    IF last[1] \in {"[hex_word]", "[hardware_label]", "[$ff00+hex_byte]"}
                    THEN <<"[explicit]", labelled_addresses[number][value]>>
                    ELSE explicit_label(labelled_addresses[number][value]))]
        ELSE s

\* mutant: the ld_long workaround is used for 0xea only
UsesLdLong_ea(opcode, value) == value >= HighPage /\ opcode = 234

\* "if value >= 0xff00 and (opcode == 0xea or opcode == 0xfa)"
UsesLdLong(opcode, value) == value >= HighPage /\ (opcode = 234 \/ opcode = 250)

\* mutant: a relative jump into a later bank is output as data
JrAsData_later(number, target_bank) == target_bank > number

\* "output as data, otherwise RGBDS will complain"
JrAsData(number, target_bank) == target_bank < number

\* one pass of the body of the operand loop
ProcessOperand(number, pcv, fp, operand, s) ==
    LET opcode == Data(pcv)
        byte   == Data(pcv + 1)
        word   == Data(pcv + 1) + Data(pcv + 2) * 256
        signed == to_signed(byte)
    IN
    CASE operand = "a16" ->
            LabelOperand(number, fp,
                [s EXCEPT !.length = @ + 2,
                          !.operand_values = Append(@, hex_word(word))],
                {word})
      [] operand = "[a16]" ->
            LabelOperand(number, fp,
                [s EXCEPT !.length = @ + 2,
                          !.operand_values =
                              Append(@, IF UsesLdLong(opcode, word)
                                        THEN hex_word(word)
                                        ELSE <<"[hex_word]", word>>),
                          !.instruction_name =
                              IF UsesLdLong(opcode, word) THEN "ld_long" ELSE @,
                          !.has_ld_long = @ \/ UsesLdLong(opcode, word)],
                {word})
      [] operand = "[$ff00+a8]" ->
            LabelOperand(number, fp,
                [s EXCEPT !.length = @ + 1,
                          !.operand_values =
                              Append(@, IF HighPage + byte \in hardware_labels
                                        THEN <<"[hardware_label]", HighPage + byte>>
                                        ELSE <<"[$ff00+hex_byte]", byte>>)],
                {byte})
      [] operand = "d8" ->
            LabelOperand(number, fp,
                [s EXCEPT !.length = @ + 1,
                          !.operand_values = Append(@, hex_byte(byte))],
                {byte})
      [] operand = "d16" ->
            LabelOperand(number, fp,
                [s EXCEPT !.length = @ + 2,
                          !.operand_values = Append(@, hex_word(word))],
                {word})
      [] operand = "r8" ->
            LabelOperand(number, fp,
                [s EXCEPT !.length = @ + 1,
                          !.operand_values =
                              Append(@, IF signed < 0
                                        THEN <<"-hex_byte", -signed>>
                                        ELSE hex_byte(signed))],
                {signed})
      [] operand = "pc+r8" ->
            LET value == pcv + 2 + signed
                relative_value == value - pcv
                target_bank == value \div BankSize
                s1 == [s EXCEPT !.length = @ + 1,
                                !.operand_values =
                                    Append(@, IF relative_value >= 0
                                              THEN <<"@+hex_byte", relative_value>>
                                              ELSE <<"@-hex_byte", -relative_value>>)]
            IN  IF JrAsData(number, target_bank)
                THEN [s1 EXCEPT !.instruction_name = "DB",
                                !.operand_values = <<hex_byte(opcode), hex_byte(byte)>>,
                                !.brk = TRUE]
                ELSE LabelOperand(number, fp, s1,
                        IF number # target_bank THEN {}
                        ELSE {rom_address_to_mem_address(value)})
      [] operand = "sp+r8" ->
            LabelOperand(number, fp,
                [s EXCEPT !.length = @ + 1,
                          !.operand_values =
                              Append(@, IF signed < 0
                                        THEN <<"sp-hex_byte", -signed>>
                                        ELSE <<"sp+hex_byte", signed>>)],
                {signed})
      [] OTHER ->
            [s EXCEPT !.operand_values = Append(@, <<"str", operand>>)]

RECURSIVE OperandLoop(_, _, _, _, _)
\* "for operand in operands", left by break
OperandLoop(number, pcv, fp, operands, s) ==
    IF operands = <<>> THEN s
    ELSE LET s1 == ProcessOperand(number, pcv, fp, Head(operands), s)
         IN  IF s1.brk THEN s1
             ELSE OperandLoop(number, pcv, fp, Tail(operands), s1)

\* mutant: stop and halt always take the following byte with them
QuirkTakesNop_always(following) == TRUE

\* "if rom.data[pc + 1] == 0x00" of the stop/halt quirk
QuirkTakesNop(following) == following = 0

\* the locals of disassemble_at_pc when the operand loop ends
DecodeOperands(number, pcv, fp) ==
    LET opcode == Data(pcv)
        is_cb  == opcode = 203
        name0  == IF is_cb THEN cb_instruction_name(Data(pcv + 1))
                  ELSE instruction_names(opcode)
        ops0   == IF is_cb THEN cb_instruction_operands(Data(pcv + 1))
                  ELSE instruction_operands(opcode)
        quirk  == name0 = "stop" \/ name0 = "halt"
        taken  == quirk /\ QuirkTakesNop(Data(pcv + 1))
        as_db  == quirk /\ ~taken
        \* as_db: operands = [hex_byte(opcode)], a string the loop appends as it is
        s0     == [length |-> 1 + (IF is_cb THEN 1 ELSE 0) + (IF taken THEN 1 ELSE 0),
                   instruction_name |-> IF as_db THEN "DB" ELSE name0,
                   operand_values |-> IF as_db THEN <<hex_byte(opcode)>> ELSE <<>>,
                   added |-> {},
                   has_ld_long |-> FALSE,
                   brk |-> FALSE]
    IN  OperandLoop(number, pcv, fp, IF as_db THEN <<>> ELSE ops0, s0)

\* mutant: an instruction may end one byte past end_address
SpansEnd_late(pcv, length, end) == pcv + length - 1 > end

\* "check the instruction is not spanning 2 banks"
SpansEnd(pcv, length, end) == pcv + length - 1 >= end

\* mutant: the check against end_address is made in the first pass only
Decode_first_pass(number, pcv, end, fp) ==
    LET s == DecodeOperands(number, pcv, fp)
    IN  IF fp /\ SpansEnd(pcv, s.length, end)
        THEN [s EXCEPT !.length = 1,
                       !.instruction_name = "DB",
                       !.operand_values = <<hex_byte(Data(pcv))>>]
        ELSE s

\* the locals of disassemble_at_pc after the check against end_address
Decode(number, pcv, end, fp) ==
    LET s == DecodeOperands(number, pcv, fp)
    IN  IF SpansEnd(pcv, s.length, end)
        THEN [s EXCEPT !.length = 1,
                       !.instruction_name = "DB",
                       !.operand_values = <<hex_byte(Data(pcv))>>]
        ELSE s

(***************************************************************************)
(* Output lines.                                                           *)
(***************************************************************************)
EmptyLine == <<"">>

append_empty_line_if_none_already(out) ==
    IF Len(out) > 0 /\ out[Len(out)] # EmptyLine THEN Append(out, EmptyLine) ELSE out

append_labels_to_output(out, labels) ==
    Append(append_empty_line_if_none_already(out), <<"labels", labels>>)

\* the lines after an instruction: one after jr and the conditional forms,
\* two after the others of ret, reti, jr, jp
Separators(instruction_name, operand_values) ==
    IF instruction_name \in {"ret", "reti", "jr", "jp"}
    THEN IF \/ instruction_name = "jr"
            \/ instruction_name = "jp" /\ Len(operand_values) > 1
            \/ instruction_name = "ret" /\ Len(operand_values) > 0
         THEN <<EmptyLine>>
         ELSE <<EmptyLine, EmptyLine>>
    ELSE <<>>

\* what the second pass of disassemble_at_pc appends for one instruction
EmitInstruction(out, number, pc_mem_address, d) ==
    LET labels == get_labels_for_address(number, pc_mem_address)
        out1 == IF Len(labels) > 0 THEN append_labels_to_output(out, labels)
                ELSE out
    IN  Append(out1, <<"instruction", d.instruction_name, d.operand_values,
                       pc_mem_address, d.length>>)
        \o Separators(d.instruction_name, d.operand_values)

(***************************************************************************)
(* SpecBlocks: the region map on its own.  Hints arrive through add_block  *)
(* (ROM.add_symbol_definition) before any bank is disassembled; the first  *)
(* pass of each bank then begins with resolve_blocks, bank 0 first.        *)
(***************************************************************************)
HintAddresses == {0, 16376, 16384, 16392, 32760, 32768}
    \* 0x0000 0x3ff8 0x4000 0x4008 0x7ff8 0x8000

HintLengths == {0, 16}

\* hints recorded so far: the entries added to the default block of each bank,
\* and the default blocks that a hint has replaced
HintCount ==
    LET Hints(n) ==
            Cardinality(DOMAIN blocks[n]) - 1
            + (IF blocks[n][memory_base_address(n)] = DefaultBlocks(n)[memory_base_address(n)]
               THEN 0 ELSE 1)
        RECURSIVE Sum(_)
        Sum(n) == IF n < 0 THEN 0 ELSE Hints(n) + Sum(n - 1)
    IN  Sum(NumBanks - 1)

InitCommon ==
    /\ labelled_addresses = [b \in Banks |-> EmptyDict]
    /\ disassembled_addresses = [b \in Banks |-> {}]
    /\ target_addresses = [b \in Banks |-> [n \in {"call", "jp", "jr"} |-> {}]]
    /\ first_pass = [b \in Banks |-> "unset"]
    /\ output = [b \in Banks |-> <<>>]
    /\ pc = 0
    /\ end_address = 0
    /\ index = 0
    /\ bank = 0
    /\ where = "idle"
    /\ has_ld_long = FALSE
    /\ written = {}
    /\ insn = <<>>

InitBlocks ==
    /\ rom = [origin |-> 0, prog |-> <<>>]
    /\ blocks = [b \in Banks |-> DefaultBlocks(b)]
    /\ stage = "init_symbols"
    /\ InitCommon

\* Bank.add_block called from ROM.add_symbol_definition
AddBlock(number, address, block_type, length) ==
    /\ stage = "init_symbols"
    /\ bank = 0
    /\ HintCount < MaxHints
    /\ blocks' = [blocks EXCEPT
                    ![number] = add_block(@, number, address, block_type, length)]
    /\ UNCHANGED <<rom, labelled_addresses, disassembled_addresses,
                   target_addresses, first_pass, output, pc, end_address,
                   index, bank, stage, where, has_ld_long, written, insn>>

\* Bank.disassemble(rom, True) up to and including resolve_blocks
ResolveBlocks ==
    /\ stage = "init_symbols"
    /\ bank < NumBanks
    /\ first_pass' = [first_pass EXCEPT ![bank] = "True"]
    /\ blocks' = [blocks EXCEPT
                    ![bank] = resolve_blocks(@, memory_base_address(bank))]
    /\ bank' = bank + 1
    /\ UNCHANGED <<rom, labelled_addresses, disassembled_addresses,
                   target_addresses, output, pc, end_address, index, stage,
                   where, has_ld_long, written, insn>>

NextBlocks ==
    \/ \E number \in Banks, address \in HintAddresses,
          block_type \in BlockTypes, length \in HintLengths :
          AddBlock(number, address, block_type, length)
    \/ ResolveBlocks

SpecBlocks == InitBlocks /\ [][NextBlocks]_vars

(***************************************************************************)
(* Spec: ROM.disassemble over a whole ROM.                                 *)
(*                                                                         *)
(* The ROMs enumerated hold CodeLen bytes of code that straddle the        *)
(* boundary of bank 0 and bank 1, split of them at the end of bank 0.  The *)
(* first byte is any byte of OpcodeBytes, the others are bytes that serve  *)
(* as opcodes and as operands (0xfd is no opcode, and the offset -3).  The *)
(* hints, as init_symbols leaves them, declare everything else data or     *)
(* text, so the code regions are the end of bank 0 and the start of        *)
(* bank 1.  The explicit labels are fixed.                                 *)
(***************************************************************************)
OpcodeBytes == {0, 16, 24, 64, 118, 195, 203, 205, 234, 250, 253, 255}

OperandBytes == {0, 2, 16, 24, 64, 195, 234, 253, 255}

Programs ==
    {p \in [1 .. CodeLen -> OpcodeBytes \cup OperandBytes] :
        p[1] \in OpcodeBytes /\ \A i \in 2 .. CodeLen : p[i] \in OperandBytes}

\* the hints of a bank whose code is the last `split` bytes of bank 0 and
\* the first CodeLen - split bytes of bank 1
HintedBlocks(number, split) ==
    CASE number = 0 ->
            add_block(DefaultBlocks(0), 0, 0, "data", BankSize - split)
      [] number = 1 ->
            add_block(DefaultBlocks(1), 1, BankSize + (CodeLen - split), "text",
                      BankSize - (CodeLen - split))
      [] OTHER ->
            add_block(DefaultBlocks(number), number, BankSize, "data", BankSize)

\* labels below 0x8000 belong to their bank, the others to every bank
ExplicitLabels(number) ==
    LET ram == Put(EmptyDict, HighPage, "wRam")
    IN  CASE number = 0 -> Put(ram, BankSize - 1, ".tail")
          [] number = 1 -> Put(ram, BankSize + 2, "Label")
          [] OTHER -> ram

Init ==
    /\ \E split \in 0 .. CodeLen, p \in Programs :
          /\ rom = [origin |-> BankSize - split, prog |-> p]
          /\ blocks = [b \in Banks |-> HintedBlocks(b, split)]
    /\ labelled_addresses = [b \in Banks |-> ExplicitLabels(b)]
    /\ disassembled_addresses = [b \in Banks |-> {}]
    /\ target_addresses = [b \in Banks |-> [n \in {"call", "jp", "jr"} |-> {}]]
    /\ first_pass = [b \in Banks |-> "unset"]
    /\ output = [b \in Banks |-> <<>>]
    /\ pc = 0
    /\ end_address = 0
    /\ index = 0
    /\ bank = 0
    /\ stage = "generate_labels"
    /\ where = "idle"
    /\ has_ld_long = FALSE
    /\ written = {}
    /\ insn = <<>>

\* mutant: generate_labels leaves first_pass at its default
FirstPassArgument_default(st) == "False"

\* the first_pass argument of Bank.disassemble: True from generate_labels,
\* the default False from write_bank_asm
FirstPassArgument(st) == IF st = "generate_labels" THEN "True" ELSE "False"

\* Bank.disassemble up to its loop over the blocks; from write_bank_asm the
\* file of the bank has been opened before
BeginDisassemble ==
    /\ stage \in {"generate_labels", "write_bank_asm"}
    /\ where = "idle"
    /\ first_pass' = [first_pass EXCEPT ![bank] = FirstPassArgument(stage)]
    /\ blocks' = IF first_pass'[bank] = "True"
                 THEN [blocks EXCEPT
                         ![bank] = resolve_blocks(@, memory_base_address(bank))]
                 ELSE blocks
    /\ output' = [output EXCEPT ![bank] = <<(<<"SECTION", bank>>), EmptyLine>>]
    /\ written' = IF stage = "write_bank_asm" THEN written \cup {bank} ELSE written
    /\ index' = 1
    /\ where' = "blocks"
    /\ UNCHANGED <<rom, labelled_addresses, disassembled_addresses,
                   target_addresses, pc, end_address, bank, stage, has_ld_long,
                   insn>>

BlockStarts == Sorted(DOMAIN blocks[bank])

\* process_data_in_range or process_text_in_range over a whole block, and
\* the empty line after it.  The DB lines of the block are kept as one line
\* that names the range: no label or instruction comes from them.
ProcessDataOrText ==
    /\ where = "blocks"
    /\ index <= Len(BlockStarts)
    /\ LET start_address == BlockStarts[index]
           block == blocks[bank][start_address]
           from == rom_base_address(bank) + start_address
           to == from + block.length
       IN  /\ block.type \in {"data", "text"}
           /\ output' = [output EXCEPT ![bank] =
                 append_empty_line_if_none_already(
                    IF from < to THEN Append(@, <<block.type, from, to>>) ELSE @)]
    /\ index' = index + 1
    /\ UNCHANGED <<rom, blocks, labelled_addresses, disassembled_addresses,
                   target_addresses, first_pass, pc, end_address, bank, stage,
                   where, has_ld_long, written, insn>>

\* process_code_in_range up to its loop
EnterCode ==
    /\ where = "blocks"
    /\ index <= Len(BlockStarts)
    /\ LET start_address == BlockStarts[index]
           block == blocks[bank][start_address]
       IN  /\ block.type = "code"
           /\ pc' = rom_base_address(bank) + start_address
           /\ end_address' = rom_base_address(bank) + start_address + block.length
    /\ where' = "code"
    /\ UNCHANGED <<rom, blocks, labelled_addresses, disassembled_addresses,
                   target_addresses, first_pass, output, index, bank, stage,
                   has_ld_long, written, insn>>

\* "if opcode not in instructions"
IsUnhandled(opcode) == opcode \notin instructions

\* one call of disassemble_at_pc from the loop of process_code_in_range
DisassembleAtPc ==
    /\ where = "code"
    /\ pc < end_address
    /\ ~IsUnhandled(Data(pc))
    /\ LET fp == first_pass[bank] = "True"
           pc_mem_address == rom_address_to_mem_address(pc)
           d == Decode(bank, pc, end_address, fp)
       IN  /\ pc' = pc + d.length
           /\ has_ld_long' = (has_ld_long \/ d.has_ld_long)
           /\ target_addresses' =
                 [target_addresses EXCEPT ![bank] = AddLabels(@, d.added)]
           /\ disassembled_addresses' =
                 IF fp
                 THEN [disassembled_addresses EXCEPT ![bank] = @ \cup {pc_mem_address}]
                 ELSE disassembled_addresses
           /\ output' =
                 IF fp THEN output
                 ELSE [output EXCEPT ![bank] = EmitInstruction(@, bank, pc_mem_address, d)]
           /\ insn' = <<[bank |-> bank, pc |-> pc, end_address |-> end_address,
                         first_pass |-> fp, length |-> d.length,
                         instruction_name |-> d.instruction_name,
                         operand_values |-> d.operand_values]>>
    /\ UNCHANGED <<rom, blocks, labelled_addresses, first_pass, end_address,
                   index, bank, stage, where, written>>

\* abort('Unhandled opcode: ...'): os._exit(1)
AbortUnhandledOpcode ==
    /\ where = "code"
    /\ pc < end_address
    /\ IsUnhandled(Data(pc))
    /\ stage' = "aborted"
    /\ where' = "exit"
    /\ UNCHANGED <<rom, blocks, labelled_addresses, disassembled_addresses,
                   target_addresses, first_pass, output, pc, end_address, index,
                   bank, has_ld_long, written, insn>>

\* the loop of process_code_in_range ends, and the empty line after the block
LeaveCode ==
    /\ where = "code"
    /\ pc >= end_address
    /\ output' = [output EXCEPT ![bank] = append_empty_line_if_none_already(@)]
    /\ index' = index + 1
    /\ where' = "blocks"
    /\ UNCHANGED <<rom, blocks, labelled_addresses, disassembled_addresses,
                   target_addresses, first_pass, pc, end_address, bank, stage,
                   has_ld_long, written, insn>>

\* mutant: one loop takes each bank through both passes in turn
NextCall_per_bank(st, number) ==
    IF st = "generate_labels" THEN [stage |-> "write_bank_asm", bank |-> number]
    ELSE IF number + 1 < NumBanks
    THEN [stage |-> "generate_labels", bank |-> number + 1]
    ELSE [stage |-> "done", bank |-> 0]

\* the call that follows Bank.disassemble for bank `number`: the loop of
\* generate_labels over all banks, then the loop of ROM.disassemble over
\* write_bank_asm for all banks, then write_game_asm and the rest
NextCall(st, number) ==
    IF number + 1 < NumBanks THEN [stage |-> st, bank |-> number + 1]
    ELSE [stage |-> IF st = "generate_labels" THEN "write_bank_asm" ELSE "done",
          bank |-> 0]

\* Bank.disassemble returns to generate_labels or to write_bank_asm
EndDisassemble ==
    /\ where = "blocks"
    /\ index > Len(BlockStarts)
    /\ where' = "idle"
    /\ bank' = NextCall(stage, bank).bank
    /\ stage' = NextCall(stage, bank).stage
    /\ UNCHANGED <<rom, blocks, labelled_addresses, disassembled_addresses,
                   target_addresses, first_pass, output, pc, end_address, index,
                   has_ld_long, written, insn>>

Next ==
    \/ BeginDisassemble
    \/ ProcessDataOrText
    \/ EnterCode
    \/ DisassembleAtPc
    \/ AbortUnhandledOpcode
    \/ LeaveCode
    \/ EndDisassemble

Spec == Init /\ [][Next]_vars

(***************************************************************************)
(* Claims about the decoder and the two passes, checked under Spec.        *)
(***************************************************************************)
\* the ROM address a relative jump at i.pc leads to
JrTarget(i) == i.pc + 2 + to_signed(Data(i.pc + 1))

\* the 16-bit operand of the instruction at i.pc
WordOperand(i) == Data(i.pc + 1) + Data(i.pc + 2) * 256

LastOperand(i) == i.operand_values[Len(i.operand_values)]

IsLabel(operand) == operand[1] \in {"explicit", "[explicit]", "generated"}

\* the address that emission looks up for the call, jp or jr at i.pc: none
\* for a relative jump that leaves the bank
LookedUp(i) ==
    IF Data(i.pc) \in {195, 205} THEN {WordOperand(i)}
    ELSE IF Data(i.pc) = 24 /\ JrTarget(i) \div BankSize = i.bank
    THEN {rom_address_to_mem_address(JrTarget(i))}
    ELSE {}

\* C2: in emission the operand address of a call, jp or jr is replaced by the
\* explicit label of the address if there is one, else by the generated name
\* <prefix>_<bank>_<address> if the address was recorded under the
\* instruction's category, else it stays a literal; and it stays a literal
\* whenever the address was not recorded as an instruction start.
C2_OperandLabel ==
    insn # <<>> =>
    LET i == insn[1]
        last == LastOperand(i)
        known == labelled_addresses[i.bank]
    IN  (~i.first_pass /\ i.instruction_name \in {"call", "jp", "jr"}) =>
        \A a \in LookedUp(i) :
           a < LabelLimit =>
              /\ a \notin disassembled_addresses[i.bank] => ~IsLabel(last)
              /\ (IsLabel(last) /\ a \in DOMAIN known) =>
                    (last[1] = "explicit" /\ last[2] = known[a])
              /\ (IsLabel(last) /\ a \notin DOMAIN known) =>
                    /\ last[1] = "generated"
                    /\ last = format_label(i.bank, i.instruction_name, a)
                    /\ a \in target_addresses[i.bank][i.instruction_name]
              /\ ( /\ a \in disassembled_addresses[i.bank]
                   /\ PartitionRule(i.bank, a)
                   /\ (a \in DOMAIN known
                         \/ a \in target_addresses[i.bank][i.instruction_name]) )
                    => IsLabel(last)

\* C2 witness: emission has replaced an operand by a generated label
C2_GeneratedLabelUsed ==
    /\ insn # <<>>
    /\ ~insn[1].first_pass
    /\ insn[1].instruction_name \in {"call", "jp", "jr"}
    /\ LastOperand(insn[1])[1] = "generated"

\* the relative jump at i.pc leads into another bank
CrossBankJr(i) == Data(i.pc) = 24 /\ JrTarget(i) \div BankSize # i.bank

\* C3 as claimed: a relative jump whose target lies in another bank, earlier
\* or later, gets no label and is decoded as two literal data bytes, the
\* opcode and the offset.
C3_CrossBankJrIsData ==
    insn # <<>> =>
    LET i == insn[1]
    IN  CrossBankJr(i) =>
           /\ i.instruction_name = "DB"
           /\ i.length = 2
           /\ i.operand_values = <<hex_byte(Data(i.pc)), hex_byte(Data(i.pc + 1))>>

\* C3 as amended: a relative jump whose target lies in another bank gets no
\* label; it is decoded as the two literal bytes when the target bank is an
\* earlier one, it stays a jr with its literal @+offset when the target bank
\* is a later one, and in both cases it is the opcode byte alone when the
\* offset byte lies past the end of the region.
C3_CrossBankJr ==
    insn # <<>> =>
    LET i == insn[1]
    IN  CrossBankJr(i) =>
           /\ \A k \in 1 .. Len(i.operand_values) : ~IsLabel(i.operand_values[k])
           /\ IF i.pc + 1 >= i.end_address
              THEN /\ i.instruction_name = "DB"
                   /\ i.length = 1
                   /\ i.operand_values = <<hex_byte(Data(i.pc))>>
              ELSE IF JrTarget(i) \div BankSize < i.bank
              THEN /\ i.instruction_name = "DB"
                   /\ i.length = 2
                   /\ i.operand_values =
                         <<hex_byte(Data(i.pc)), hex_byte(Data(i.pc + 1))>>
              ELSE /\ i.instruction_name = "jr"
                   /\ i.length = 2
                   /\ i.operand_values = <<(<<"@+hex_byte", JrTarget(i) - i.pc>>)>>

\* C3 witness: emission has kept a relative jump into a later bank as a jr
C3_LaterBankJrKept ==
    /\ insn # <<>>
    /\ ~insn[1].first_pass
    /\ CrossBankJr(insn[1])
    /\ JrTarget(insn[1]) \div BankSize > insn[1].bank
    /\ insn[1].instruction_name = "jr"

\* the length of the instruction at i.pc before the check against the end
NominalLength(i) == DecodeOperands(i.bank, i.pc, i.first_pass).length

\* what C4 says of the decode step the state records
StepStaysInRegion ==
    insn # <<>> =>
    LET i == insn[1]
    IN  /\ i.length >= 1
        /\ i.pc + i.length <= i.end_address
        /\ i.pc + NominalLength(i) > i.end_address =>
              /\ i.length = 1
              /\ i.instruction_name = "DB"
              /\ i.operand_values = <<hex_byte(Data(i.pc))>>
        /\ i.pc + NominalLength(i) <= i.end_address =>
              i.length = NominalLength(i)

\* C4: a decode step whose instruction would extend past end_address yields
\* the opcode as a single literal byte of length 1; every step advances the
\* program counter by the length of what it decoded, which is at least 1,
\* and never past end_address, and the walk of the region ends with the
\* program counter equal to end_address.
C4_StepsStayInRegion ==
    /\ [](StepStaysInRegion /\ (where = "code" => pc <= end_address))
    /\ [][ /\ (where = "code" /\ where' = "code") =>
                /\ pc' = pc + insn'[1].length
                /\ pc' > pc
                /\ pc' <= end_address
           /\ (where = "code" /\ where' = "blocks") => pc = end_address ]_vars

\* C4 witness: a step has cut an instruction that would have crossed the end
\* of its region, and the walk stands at the end of the region
C4_CutAtEnd ==
    /\ insn # <<>>
    /\ insn[1].pc + NominalLength(insn[1]) > insn[1].end_address
    /\ where = "code"
    /\ pc = end_address

Phase(fp) ==
    CASE fp = "unset" -> "Unresolved"
      [] fp = "True" -> "Discovering"
      [] fp = "False" -> "Emitting"

PhaseAfter(phase) ==
    CASE phase = "Unresolved" -> "Discovering"
      [] phase = "Discovering" -> "Emitting"
      [] phase = "Emitting" -> "Emitting"

\* C5: every bank goes Unresolved -> Discovering -> Emitting in that order
\* and never back; a bank enters a phase only between two walks, so its
\* discovery is complete before its emission begins and the passes do not
\* interleave; and every bank is Emitting when the output is finalized.
C5_PhasesInOrder ==
    /\ [][\A b \in Banks :
            /\ Phase(first_pass'[b]) \in
                  {Phase(first_pass[b]), PhaseAfter(Phase(first_pass[b]))}
            /\ first_pass'[b] # first_pass[b] =>
                  /\ where = "idle"
                  /\ bank = b
                  /\ first_pass[b] = "True" =>
                        \A c \in Banks : first_pass[c] # "unset"
            /\ (where # "idle" /\ where' # "idle") => first_pass'[b] = first_pass[b]]_vars
    /\ [](stage = "done" => \A b \in Banks : first_pass[b] = "False")

\* C5 witness: the run has finished with every bank through both passes
C5_AllEmitted ==
    /\ stage = "done"
    /\ \A b \in Banks : Phase(first_pass[b]) = "Emitting"

\* C6: when an opcode absent from the table is met, the run aborts and no
\* bank output has been produced: no bank's file has been opened and no bank
\* has begun its emission.
C6_AbortLeavesNoOutput ==
    stage = "aborted" =>
       /\ written = {}
       /\ \A b \in Banks : first_pass[b] # "False"

\* C6 witness: the run has aborted in bank 1, after bank 0 was processed
C6_AbortedInLaterBank ==
    /\ stage = "aborted"
    /\ bank = 1
    /\ first_pass[0] = "True"
    /\ Data(pc) \notin instructions

\* C9 as claimed: a stop or halt followed by 0x00 takes 2 bytes and keeps its
\* mnemonic; followed by another byte it takes 1 byte and is the opcode as a
\* literal data byte.
C9_StopHaltQuirk ==
    insn # <<>> =>
    LET i == insn[1]
    IN  Data(i.pc) \in {16, 118} =>
           IF Data(i.pc + 1) = 0
           THEN /\ i.length = 2
                /\ i.instruction_name = instruction_names(Data(i.pc))
                /\ i.operand_values = <<>>
           ELSE /\ i.length = 1
                /\ i.instruction_name = "DB"
                /\ i.operand_values = <<hex_byte(Data(i.pc))>>

\* C9 as amended: a stop or halt followed by 0x00 takes 2 bytes and keeps its
\* mnemonic if that 0x00 lies inside the region being walked; followed by
\* another byte, or by a 0x00 at or past end_address, it takes 1 byte and is
\* the opcode as a literal data byte.
C9_StopHaltQuirkInRegion ==
    insn # <<>> =>
    LET i == insn[1]
    IN  Data(i.pc) \in {16, 118} =>
           IF Data(i.pc + 1) = 0 /\ i.pc + 1 < i.end_address
           THEN /\ i.length = 2
                /\ i.instruction_name = instruction_names(Data(i.pc))
                /\ i.operand_values = <<>>
           ELSE /\ i.length = 1
                /\ i.instruction_name = "DB"
                /\ i.operand_values = <<hex_byte(Data(i.pc))>>

\* C9 witness: a stop or halt is the last byte of its region, and 0x00 follows
C9_QuirkAtEndOfRegion ==
    /\ insn # <<>>
    /\ Data(insn[1].pc) \in {16, 118}
    /\ Data(insn[1].pc + 1) = 0
    /\ insn[1].pc + 1 = insn[1].end_address
    /\ insn[1].instruction_name = "DB"

\* the operands of 0xea (ld [a16],a) and 0xfa (ld a,[a16]) with the address
\* operand given
LoadStoreOperands(opcode, address_operand) ==
    IF opcode = 234 THEN <<address_operand, <<"str", "a">>>>
    ELSE <<(<<"str", "a">>), address_operand>>

\* C10 as claimed: 0xea or 0xfa with an operand >= 0xff00 is emitted as
\* ld_long with the bare hex word, and the flag is set.
C10_LdLong ==
    insn # <<>> =>
    LET i == insn[1]
    IN  (Data(i.pc) \in {234, 250} /\ WordOperand(i) >= HighPage) =>
           /\ i.instruction_name = "ld_long"
           /\ i.operand_values =
                 LoadStoreOperands(Data(i.pc), hex_word(WordOperand(i)))
           /\ has_ld_long

\* C10 as amended: 0xea or 0xfa with an operand >= 0xff00 sets the flag; if
\* its three bytes lie inside the region it is emitted as ld_long with the
\* address unbracketed: the explicit label of the address if there is one,
\* the bare hex word otherwise.
C10_LdLongInRegion ==
    insn # <<>> =>
    LET i == insn[1]
        a == WordOperand(i)
        known == labelled_addresses[i.bank]
    IN  (Data(i.pc) \in {234, 250} /\ a >= HighPage) =>
           /\ has_ld_long
           /\ i.pc + 2 < i.end_address =>
                 /\ i.instruction_name = "ld_long"
                 /\ i.length = 3
                 /\ i.operand_values =
                       LoadStoreOperands(Data(i.pc),
                          IF a \in DOMAIN known THEN explicit_label(known[a])
                          ELSE hex_word(a))

\* C10 witness: emission has written ld_long with the bare hex word
C10_LdLongEmitted ==
    /\ insn # <<>>
    /\ ~insn[1].first_pass
    /\ Data(insn[1].pc) \in {234, 250}
    /\ insn[1].instruction_name = "ld_long"
    /\ hex_word(WordOperand(insn[1])) \in
          {insn[1].operand_values[k] : k \in 1 .. Len(insn[1].operand_values)}
    /\ has_ld_long

(***************************************************************************)
(* Claims about the target registry and the labels of the output, checked  *)
(* under Spec.                                                             *)
(***************************************************************************)
Categories == {"call", "jp", "jr"}

\* C11: every address in a bank's target_addresses is below 0x8000 and lies
\* in the bank's own window: in [0, 0x4000) for bank 0, in [0x4000, 0x8000)
\* for any other bank; a target outside it is never recorded.
C11_RecordedInOwnWindow ==
    \A b \in Banks : \A n \in Categories : \A a \in target_addresses[b][n] :
       /\ a >= 0
       /\ a < LabelLimit
       /\ b = 0 => a < BankSize
       /\ b > 0 => a >= BankSize

\* C11 witness: discovery in a switched bank has recorded the target of the
\* call, jp or jr it decoded
C11_SwitchedTargetRecorded ==
    /\ insn # <<>>
    /\ insn[1].first_pass
    /\ insn[1].bank > 0
    /\ insn[1].instruction_name \in Categories
    /\ \E a \in LookedUp(insn[1]) :
          /\ a >= BankSize
          /\ a \in target_addresses[insn[1].bank][insn[1].instruction_name]

\* what the discovery step at ROM address pcv of bank b hands to add_label
Recorded(b, pcv) == DecodeOperands(b, pcv, TRUE).added

\* C12: the target_addresses of a bank only grow; they and
\* disassembled_addresses change in no step outside the bank's discovery
\* pass, so emission never modifies them; a discovery step adds only what
\* it hands to add_label, and handing over an address that is already
\* recorded leaves the registry as it was.
C12_RegistryGrowsInDiscoveryOnly ==
    [][\A b \in Banks :
          /\ \A n \in Categories :
                target_addresses[b][n] \subseteq target_addresses'[b][n]
          /\ disassembled_addresses[b] \subseteq disassembled_addresses'[b]
          /\ (first_pass[b] # "True" \/ bank # b) =>
                /\ target_addresses'[b] = target_addresses[b]
                /\ disassembled_addresses'[b] = disassembled_addresses[b]
          /\ (b = bank /\ where = "code" /\ where' = "code") =>
                \A n \in Categories :
                   /\ target_addresses'[b][n] =
                         target_addresses[b][n]
                            \cup {a \in LookedUp(insn'[1]) : <<n, a>> \in Recorded(b, pc)}
                   /\ \A a \in target_addresses[b][n] :
                         <<n, a>> \in Recorded(b, pc) =>
                            target_addresses'[b] = target_addresses[b]]_vars

\* C12 witness: discovery has handed add_label an address that an earlier
\* instruction of the bank had already recorded under the same category
C12_RecordedTwice ==
    /\ insn # <<>>
    /\ insn[1].first_pass
    /\ \E q \in disassembled_addresses[insn[1].bank] :
          /\ rom_base_address(insn[1].bank) + q < insn[1].pc
          /\ Recorded(insn[1].bank, rom_base_address(insn[1].bank) + q)
                \cap Recorded(insn[1].bank, insn[1].pc) # {}

\* the instruction lines of a bank's output, in the order written
InstructionLines(b) == SelectSeq(output[b], LAMBDA l : l[1] = "instruction")

\* the addresses at which emission has written an instruction, in order
EmittedStarts(b) == [k \in 1 .. Len(InstructionLines(b)) |-> InstructionLines(b)[k][4]]

\* the instruction starts recorded by discovery, which visits them in
\* ascending order
DiscoveredStarts(b) == Sorted(disassembled_addresses[b])

IsPrefix(short, long) ==
    /\ Len(short) <= Len(long)
    /\ \A k \in 1 .. Len(short) : short[k] = long[k]

\* what C13 says of a state
EmissionFollowsDiscovery ==
    /\ (insn # <<>> /\ ~insn[1].first_pass) =>
          LET i == insn[1]
          IN  /\ rom_address_to_mem_address(i.pc) \in disassembled_addresses[i.bank]
              /\ i.length = Decode(i.bank, i.pc, i.end_address, TRUE).length
    /\ \A b \in Banks :
          /\ first_pass[b] = "False" =>
                IsPrefix(EmittedStarts(b), DiscoveredStarts(b))
          /\ stage = "done" => EmittedStarts(b) = DiscoveredStarts(b)
          /\ \A k \in 1 .. Len(output[b]) :
                output[b][k][1] = "labels" =>
                   /\ k < Len(output[b])
                   /\ output[b][k + 1][1] = "instruction"
                   /\ output[b][k + 1][4] \in disassembled_addresses[b]

\* C13: emission visits the instruction starts that discovery visited, in
\* the same order and with the same lengths: discovery records its starts in
\* ascending order, the starts emission has written are at any time the
\* first of them and at the end all of them, each emission step consumes the
\* length that discovery consumed there, and every label line of the output
\* stands before an instruction whose address discovery recorded.
C13_EmissionFollowsDiscovery ==
    /\ []EmissionFollowsDiscovery
    /\ [][\A b \in Banks :
            \A a \in disassembled_addresses'[b] \ disassembled_addresses[b] :
               /\ a = rom_address_to_mem_address(pc)
               /\ \A earlier \in disassembled_addresses[b] : earlier < a]_vars

\* C13 witness: the run is done and emission has written instructions in
\* both banks that hold code, a cut one among them
C13_BothPassesWalked ==
    /\ stage = "done"
    /\ Len(EmittedStarts(0)) > 0
    /\ Len(EmittedStarts(1)) > 1
    /\ \E k \in 1 .. Len(InstructionLines(0)) :
          InstructionLines(0)[k][2] = "DB" /\ Data(InstructionLines(0)[k][4]) = 195

\* the step has cut the instruction it decoded down to its opcode byte
CutStep ==
    /\ where = "code"
    /\ where' = "code"
    /\ pc + NominalLength(insn'[1]) > end_address

\* C14: a decode step that abandons its instruction because it would extend
\* past end_address adds no address to the target registry and does not set
\* the ld_long flag.
C14_CutStepHasNoEffect ==
    [][CutStep => /\ target_addresses' = target_addresses
                  /\ has_ld_long' = has_ld_long]_vars

\* the names that line k of a bank's output defines
DefinedBy(b, k) ==
    IF output[b][k][1] = "labels"
    THEN {output[b][k][2][j][2] : j \in 1 .. Len(output[b][k][2])}
    ELSE {}

\* the label is defined right before the instruction that starts at address a
DefinedBefore(b, label, a) ==
    \E k \in 1 .. Len(output[b]) - 1 :
       /\ label \in DefinedBy(b, k)
       /\ output[b][k + 1][1] = "instruction"
       /\ output[b][k + 1][4] = a

\* the address that the operand of the call, jp or jr of an output line
\* stands for
OperandAddresses(b, l) == LookedUp([pc |-> rom_base_address(b) + l[4], bank |-> b])

\* C15 as claimed: in the finished output of a bank, every label that stands
\* for the operand of a call, jp or jr is defined in that output, right
\* before the instruction that starts at the operand's address.
C15_OperandLabelsDefined ==
    stage = "done" =>
       \A b \in Banks : \A k \in 1 .. Len(output[b]) :
          LET l == output[b][k]
          IN  (l[1] = "instruction" /\ l[2] \in Categories) =>
                 \A j \in 1 .. Len(l[3]) :
                    IsLabel(l[3][j]) =>
                       \A a \in OperandAddresses(b, l) : DefinedBefore(b, l[3][j], a)

\* C15 as amended: in the finished output of a bank, every label that stands
\* for a call, jp or jr operand below 0x8000 is defined in that output,
\* right before the instruction that starts at the operand's address; a
\* label that stands for an operand of 0x8000 or more is the explicit label
\* of an address of 0xc000 or more, which the output of the bank does not
\* define.
C15_CodeLabelsDefined ==
    stage = "done" =>
       \A b \in Banks : \A k \in 1 .. Len(output[b]) :
          LET l == output[b][k]
          IN  (l[1] = "instruction" /\ l[2] \in Categories) =>
                 \A j \in 1 .. Len(l[3]) :
                    IsLabel(l[3][j]) =>
                       \A a \in OperandAddresses(b, l) :
                          IF a < LabelLimit
                          THEN DefinedBefore(b, l[3][j], a)
                          ELSE /\ a >= RamLabelBase
                               /\ a \in DOMAIN labelled_addresses[b]
                               /\ l[3][j] = explicit_label(labelled_addresses[b][a])
                               /\ \A m \in 1 .. Len(output[b]) :
                                     l[3][j] \notin DefinedBy(b, m)

\* C15 witness: the finished output of a bank holds a call, jp or jr whose
\* operand is a label that the output defines right before the instruction
\* at the operand's address
C15_LabelsUsed ==
    /\ stage = "done"
    /\ \E b \in Banks : \E k \in 1 .. Len(output[b]) :
          /\ output[b][k][1] = "instruction"
          /\ output[b][k][2] \in Categories
          /\ \E j \in 1 .. Len(output[b][k][3]) :
                /\ IsLabel(output[b][k][3][j])
                /\ \E a \in OperandAddresses(b, output[b][k]) :
                      a < LabelLimit /\ DefinedBefore(b, output[b][k][3][j], a)

(***************************************************************************)
(* Claims about the region map, checked under SpecBlocks.                  *)
(***************************************************************************)
InWindow(number, address) ==
    /\ address >= memory_base_address(number)
    /\ address < memory_base_address(number) + BankSize

\* the regions of blks in start-address order are pairwise disjoint and
\* cover [base, base + 0x4000) exactly
IsPartition(blks, base) ==
    LET keys == Sorted(DOMAIN blks)
    IN  /\ Len(keys) > 0
        /\ keys[1] = base
        /\ \A i \in 1 .. Len(keys) :
              /\ blks[keys[i]].length >= 0
              /\ keys[i] + blks[keys[i]].length =
                    (IF i < Len(keys) THEN keys[i + 1] ELSE base + BankSize)

\* C1: after resolve_blocks the regions of every bank, in start-address
\* order, are pairwise non-overlapping and their union is exactly the bank
\* window [base, base + 0x4000), whatever hints add_block was given.
C1_RegionsPartitionWindow ==
    \A b \in Banks :
        first_pass[b] # "unset" => IsPartition(blocks[b], memory_base_address(b))

\* C7: a hint whose address lies outside the window [base, base + 0x4000),
\* below it or at/above its end, is ignored by add_block: the hint set stays
\* as it was.
C7_OutsideHintIgnored ==
    [][\A number \in Banks, address \in HintAddresses,
          block_type \in BlockTypes, length \in HintLengths :
          (AddBlock(number, address, block_type, length)
             /\ ~InWindow(number, address)) => blocks' = blocks]_vars

\* the start of the hint after s, the span resolve_blocks is said to give the
\* hint at s, and the addresses inside it
NextHint(hints, s) ==
    LET later == {k \in DOMAIN hints : k > s}
    IN  IF later = {} THEN s + hints[s].length
        ELSE CHOOSE k \in later : \A j \in later : k <= j

SpanEnd(hints, s) ==
    IF s + hints[s].length < NextHint(hints, s)
    THEN s + hints[s].length ELSE NextHint(hints, s)

InSpan(hints, a) ==
    \E s \in DOMAIN hints : s <= a /\ a < SpanEnd(hints, s)

\* Spans and regions are intervals, so a statement about every address of
\* the window is decided at the ends of the intervals: the first and last
\* address of the window, of every span and of every region, and the
\* addresses next to them.
Probes(hints, regions, base) ==
    LET ends == {base, base + BankSize}
                \cup DOMAIN hints \cup {SpanEnd(hints, s) : s \in DOMAIN hints}
                \cup DOMAIN regions
                \cup {k + regions[k].length : k \in DOMAIN regions}
    IN  {a \in ends \cup {e - 1 : e \in ends} :
            a >= base /\ a < base + BankSize}

ResolvedAsClaimed(hints, regions, base) ==
    /\ \A s \in DOMAIN hints :
          SpanEnd(hints, s) > s =>
             /\ s \in DOMAIN regions
             /\ regions[s] = [type |-> hints[s].type,
                              length |-> SpanEnd(hints, s) - s]
    /\ \A a \in Probes(hints, regions, base) :
          ~InSpan(hints, a) =>
             \E k \in DOMAIN regions :
                /\ ~(k \in DOMAIN hints /\ SpanEnd(hints, k) > k)
                /\ regions[k].type = "code"
                /\ k <= a /\ a < k + regions[k].length

ExampleHints ==
    Put(Put(EmptyDict, 16384, [type |-> "data", length |-> 16]),
        16392, [type |-> "code", length |-> 16])

\* C8: resolve_blocks gives each hint the span from its start to
\* min(start + length, start of the next hint) with the hint's kind, and puts
\* every other address of the window in a synthetic code region; the hints
\* data [0x4000,+0x10) and code [0x4008,+0x10) resolve to data [0x4000,+0x8)
\* followed by code [0x4008,+0x10).
C8_ResolveSpans ==
    [][\A b \in Banks :
          (first_pass[b] = "unset" /\ first_pass'[b] # "unset") =>
             /\ ResolvedAsClaimed(blocks[b], blocks'[b], memory_base_address(b))
             /\ blocks[b] = ExampleHints =>
                   /\ blocks'[b][16384] = [type |-> "data", length |-> 8]
                   /\ blocks'[b][16392] = [type |-> "code", length |-> 16]
                   /\ Sorted(DOMAIN blocks'[b])[2] = 16392]_vars

\* C8 witness: the example hints have been resolved in bank 1
C8_ExampleResolved ==
    /\ first_pass[1] = "True"
    /\ blocks[1] =
          Put(Put(Put(EmptyDict, 16384, [type |-> "data", length |-> 8]),
                  16392, [type |-> "code", length |-> 16]),
              16408, [type |-> "code", length |-> 16360])

====
